---- MODULE Spec2Model ----
(***************************************************************************)
(* Model of graph-exporter (src/main.py): export_graph connects to a       *)
(* FalkorDB server, reads every node and every relationship of one graph   *)
(* with two read-only queries, flattens each returned row into a dict and  *)
(* writes the two lists of dicts to nodes.csv and edges.csv through        *)
(* pandas.  Other clients of the server (the fixtures of src/test_main.py) *)
(* create and delete graph data while the export runs.                     *)
(***************************************************************************)
EXTENDS Integers, Sequences, FiniteSets, TLC

VARIABLES
    g_nodes,        \* server: node rows of the graph, in return order
    g_edges,        \* server: relationship rows of the graph, in return order
    pc,             \* position of export_graph
    nodes_result,   \* nodes_result.result_set (main.py:11)
    nodes,          \* the list `nodes` (main.py:12-19)
    edges_result,   \* edges_result.result_set (main.py:25)
    edges,          \* the list `edges` (main.py:26-40)
    nodes_csv,      \* the file nodes.csv in the working directory
    edges_csv,      \* the file edges.csv in the working directory
    error,          \* the exception export_graph propagated, "none" if none
    stdout,         \* lines printed (main.py:22, main.py:43)
    steps,          \* history: the pipeline steps attempted and how each ended
    mutations       \* history: mutations by other clients since the run began

vars == <<g_nodes, g_edges, pc, nodes_result, nodes, edges_result, edges,
          nodes_csv, edges_csv, error, stdout, steps, mutations>>

(***************************************************************************)
(* Bounds.                                                                 *)
(***************************************************************************)
MaxNodes == 2       \* nodes the server graph holds at most (Spec)
MaxEdges == 1       \* relationships the server graph holds at most (Spec)
MaxMutations == 2   \* mutations by other clients during one run (Spec)
MaxRows == 2        \* rows of a result set (SpecData)
MaxInt == 9         \* integers 0..MaxInt are recognised when text is parsed

(***************************************************************************)
(* Scalar values.  Python int, str, None and the float NaN pandas uses for *)
(* a missing cell; FloatV(n) is the float n.0 (the only floats that arise  *)
(* are integers upcast by pandas).                                         *)
(***************************************************************************)
IntV(n) == [t |-> "int", n |-> n]
StrV(s) == [t |-> "str", s |-> s]
FloatV(n) == [t |-> "float", n |-> n]
NoneV == [t |-> "none"]
NaN == [t |-> "nan"]

IsNull(v) == v.t \in {"none", "nan"}
IsNum(v) == v.t \in {"int", "float"}

(***************************************************************************)
(* Python dict: a sequence of <<key, value>> pairs with distinct keys, in  *)
(* insertion order.  An optional dict (a property mapping the server may   *)
(* return as None) is <<>> for None and <<d>> for the dict d.              *)
(***************************************************************************)
Keys(d) == {d[i][1] : i \in DOMAIN d}

HasKey(d, k) == k \in Keys(d)

Get(d, k) == d[CHOOSE i \in DOMAIN d : d[i][1] = k][2]

\* mutant of DictSet: d.setdefault(k, v), an existing key keeps its value
DictSet_KeepFirst(d, k, v) == IF HasKey(d, k) THEN d ELSE Append(d, <<k, v>>)

\* d[k] = v : an existing key keeps its position and takes the new value
DictSet(d, k, v) ==
    IF HasKey(d, k)
    THEN [i \in DOMAIN d |-> IF d[i][1] = k THEN <<k, v>> ELSE d[i]]
    ELSE Append(d, <<k, v>>)

\* d.update(p)
RECURSIVE DictUpdate(_, _)
DictUpdate(d, p) ==
    IF p = <<>> THEN d
    ELSE DictUpdate(DictSet(d, Head(p)[1], Head(p)[2]), Tail(p))

\* `x or {}` for an optional dict x: None and the empty dict are falsy
OrEmpty(x) == IF x = <<>> THEN <<>> ELSE IF x[1] = <<>> THEN <<>> ELSE x[1]

(***************************************************************************)
(* Flattening (main.py:13-19 and main.py:27-40).                           *)
(***************************************************************************)
\* mutant of FirstLabel: labels[-1] if labels else ""
FirstLabel_Last(labels) == IF labels # <<>> THEN labels[Len(labels)] ELSE ""

\* labels[0] if labels else ""
FirstLabel(labels) == IF labels # <<>> THEN labels[1] ELSE ""

\* body of the node loop: record = (ID(n), labels(n), properties(n))
FlattenNode(record) ==
    LET node_id == record[1]
        labels == record[2]
        props == OrEmpty(record[3])
        node == << <<"id", IntV(node_id)>>, <<"label", StrV(FirstLabel(labels))>> >>
    IN  DictUpdate(node, props)

\* body of the edge loop: record = (ID(e), TYPE(e), ID(a), ID(b), properties(e))
FlattenEdge(record) ==
    LET edge_id == record[1]
        edge_type == record[2]
        from_id == record[3]
        to_id == record[4]
        props == OrEmpty(record[5])
        edge == << <<"id", IntV(edge_id)>>, <<"type", StrV(edge_type)>>,
                   <<"from_id", IntV(from_id)>>, <<"to_id", IntV(to_id)>> >>
    IN  DictUpdate(edge, props)

\* mutant of FlattenNodes: rows without properties are skipped
FlattenNodes_SkipNoProps(result_set) ==
    LET kept == SelectSeq(result_set, LAMBDA r : r[3] # <<>>)
    IN  [i \in DOMAIN kept |-> FlattenNode(kept[i])]

\* the node loop: one dict appended per row of the result set
FlattenNodes(result_set) == [i \in DOMAIN result_set |-> FlattenNode(result_set[i])]

\* the edge loop
FlattenEdges(result_set) == [i \in DOMAIN result_set |-> FlattenEdge(result_set[i])]

(***************************************************************************)
(* pandas: DataFrame(list of dicts).to_csv(path, index=False)              *)
(***************************************************************************)
\* columns of DataFrame(records): the keys in order of first appearance
RECURSIVE AddKeys(_, _)
AddKeys(cols, d) ==
    IF d = <<>> THEN cols
    ELSE AddKeys(IF \E i \in DOMAIN cols : cols[i] = Head(d)[1]
                 THEN cols ELSE Append(cols, Head(d)[1]), Tail(d))

\* mutant of Columns: the keys of the first record only
Columns_OfFirstRecord(records) ==
    IF records = <<>> THEN <<>> ELSE AddKeys(<<>>, records[1])

RECURSIVE Columns(_)
Columns(records) ==
    IF records = <<>> THEN <<>>
    ELSE AddKeys(Columns(SubSeq(records, 1, Len(records) - 1)), records[Len(records)])

\* the frame: one row per record, NaN where the record lacks the column
DataFrame(records) ==
    LET cols == Columns(records)
    IN  [columns |-> cols,
         data |-> [r \in DOMAIN records |->
                     [c \in DOMAIN cols |->
                        IF HasKey(records[r], cols[c])
                        THEN Get(records[r], cols[c]) ELSE NaN]]]

\* decimal text of a natural number
Digits == <<"0", "1", "2", "3", "4", "5", "6", "7", "8", "9">>

RECURSIVE IntText(_)
IntText(n) == IF n < 10 THEN Digits[n + 1] ELSE IntText(n \div 10) \o Digits[(n % 10) + 1]

FloatText(n) == IntText(n) \o ".0"

\* a column of Python ints holding None/NaN as well is stored as float64
IsFloatColumn(df, c) ==
    /\ \A r \in DOMAIN df.data : IsNull(df.data[r][c]) \/ IsNum(df.data[r][c])
    /\ \E r \in DOMAIN df.data : IsNull(df.data[r][c])
    /\ \E r \in DOMAIN df.data : IsNum(df.data[r][c])

\* text of one cell: na_rep is "", a str is written as it is
RenderCell(v, asFloat) ==
    CASE v.t = "int" -> IF asFloat THEN FloatText(v.n) ELSE IntText(v.n)
      [] v.t = "float" -> FloatText(v.n)
      [] v.t = "str" -> v.s
      [] OTHER -> ""

\* mutant of to_csv: to_csv(index=True), the row index is written as a first column
to_csv_WithIndex(df) ==
    [cols |-> <<"">> \o df.columns,
     rows |-> [r \in DOMAIN df.data |->
                 <<IntText(r - 1)>> \o
                 [c \in DOMAIN df.columns |->
                    RenderCell(df.data[r][c], IsFloatColumn(df, c))]]]

\* the table to_csv(index=False) writes: header cells and the cells of each row
to_csv(df) ==
    [cols |-> df.columns,
     rows |-> [r \in DOMAIN df.data |->
                 [c \in DOMAIN df.columns |->
                    RenderCell(df.data[r][c], IsFloatColumn(df, c))]]]

(***************************************************************************)
(* pandas.read_csv with its defaults (test_main.py:75, test_main.py:106)   *)
(***************************************************************************)
\* default na_values of read_csv
NaTokens == {"", "#N/A", "#N/A N/A", "#NA", "-1.#IND", "-1.#QNAN", "-NaN", "-nan",
             "1.#IND", "1.#QNAN", "<NA>", "N/A", "NA", "NULL", "NaN", "None",
             "n/a", "nan", "null"}

IsIntText(s) == \E n \in 0..MaxInt : IntText(n) = s
IsFloatText(s) == \E n \in 0..MaxInt : FloatText(n) = s
NumOf(s) == CHOOSE n \in 0..MaxInt : IntText(n) = s \/ FloatText(n) = s

\* dtype inference: a column is numeric when every cell that is not NA is a number
IsNumericText(table, c) ==
    \A r \in DOMAIN table.rows :
        LET s == table.rows[r][c] IN s \in NaTokens \/ IsIntText(s) \/ IsFloatText(s)

IsIntegerText(table, c) == \A r \in DOMAIN table.rows : IsIntText(table.rows[r][c])

ParseCell(table, r, c) ==
    LET s == table.rows[r][c]
    IN  IF s \in NaTokens THEN NaN
        ELSE IF IsIntegerText(table, c) THEN IntV(NumOf(s))
        ELSE IF IsNumericText(table, c) THEN FloatV(NumOf(s))
        ELSE StrV(s)

\* the frame read back; a file without columns raises EmptyDataError
read_csv(table) ==
    IF table.cols = <<>> THEN [raised |-> "EmptyDataError", columns |-> <<>>, data |-> <<>>]
    ELSE [raised |-> "none",
          columns |-> table.cols,
          data |-> [r \in DOMAIN table.rows |->
                      [c \in DOMAIN table.cols |-> ParseCell(table, r, c)]]]

(***************************************************************************)
(* The working directory.  A file is absent, holds what it held before the *)
(* run ("old"), holds a table this run wrote completely ("written"), or    *)
(* holds what a write of this run left behind when it failed after the     *)
(* file had been opened ("partial").                                       *)
(***************************************************************************)
Absent == [state |-> "absent", cols |-> <<>>, rows |-> <<>>]
Old == [state |-> "old", cols |-> <<"id">>, rows |-> << <<"0">> >>]
Written(table) == [state |-> "written", cols |-> table.cols, rows |-> table.rows]

\* what a failed to_csv can leave: the file untouched (open refused), or the
\* file created/truncated holding nothing or the header and some of the rows
FailedWrite(file, table) ==
    {file, [state |-> "partial", cols |-> <<>>, rows |-> <<>>]}
    \cup {[state |-> "partial", cols |-> table.cols, rows |-> SubSeq(table.rows, 1, k)] :
            k \in 0..Len(table.rows)}

\* mutant of WriteCsv: `if records:` around the write, an empty list writes nothing
WriteCsv_SkipEmpty(file, records) ==
    IF records = <<>> THEN file ELSE Written(to_csv(DataFrame(records)))

\* pd.DataFrame(records).to_csv(path, index=False)
WriteCsv(file, records) == Written(to_csv(DataFrame(records)))

(***************************************************************************)
(* The server graph and its other clients (fixtures of test_main.py).      *)
(***************************************************************************)
None == <<>>
Some(d) == <<d>>

NodeIds(rows) == {rows[i][1] : i \in DOMAIN rows}

\* identities are assigned by the server and unique among the live entities
FreshId(rows) == CHOOSE n \in 0..Len(rows) : n \notin NodeIds(rows)

\* labels and properties other clients give to the nodes they create
NodeInputs ==
    { << <<>>, None >>,
      << <<"Person", "Company">>, Some(<< <<"name", StrV("Alice")>>, <<"id", IntV(7)>> >>) >> }

\* type and properties other clients give to the relationships they create
EdgeInputs ==
    { << "KNOWS", None >>,
      << "WORKS_FOR", Some(<< <<"since", IntV(5)>>, <<"to_id", IntV(7)>> >>) >> }

Running == pc \notin {"start", "done", "failed"}

\* a mutation is possible until the run has ended; those during the run are counted
Mutate ==
    /\ pc \notin {"done", "failed"}
    /\ Running => mutations < MaxMutations
    /\ mutations' = IF Running THEN mutations + 1 ELSE mutations

\* g.query("CREATE (:Label {...})")
ClientCreateNode ==
    /\ Mutate
    /\ Len(g_nodes) < MaxNodes
    /\ \E in \in NodeInputs :
          g_nodes' = Append(g_nodes, <<FreshId(g_nodes), in[1], in[2]>>)
    /\ UNCHANGED <<g_edges, pc, nodes_result, nodes, edges_result, edges,
                   nodes_csv, edges_csv, error, stdout, steps>>

\* g.query("MATCH (a ...), (b ...) CREATE (a)-[:TYPE {...}]->(b)")
ClientCreateEdge ==
    /\ Mutate
    /\ Len(g_edges) < MaxEdges
    /\ \E in \in EdgeInputs, a \in NodeIds(g_nodes), b \in NodeIds(g_nodes) :
          g_edges' = Append(g_edges, <<FreshId(g_edges), in[1], a, b, in[2]>>)
    /\ UNCHANGED <<g_nodes, pc, nodes_result, nodes, edges_result, edges,
                   nodes_csv, edges_csv, error, stdout, steps>>

\* g.query("MATCH (n) DETACH DELETE n")
ClientDeleteAll ==
    /\ Mutate
    /\ g_nodes # <<>>
    /\ g_nodes' = <<>>
    /\ g_edges' = <<>>
    /\ UNCHANGED <<pc, nodes_result, nodes, edges_result, edges,
                   nodes_csv, edges_csv, error, stdout, steps>>

(***************************************************************************)
(* export_graph (main.py:5-43), one action per step and per failure.       *)
(***************************************************************************)
\* mutant of Raise: the exception is caught and the statement is tried again
Raise_Retry(step, exc) ==
    /\ pc' = pc
    /\ error' = error
    /\ steps' = Append(steps, <<step, "raised">>)

\* an exception leaves export_graph: nothing after the failing statement runs
Raise(step, exc) ==
    /\ pc' = "failed"
    /\ error' = exc
    /\ steps' = Append(steps, <<step, "raised">>)

\* mutant of Connect: the output files are opened for writing right after connecting
Connect_OpensFiles ==
    /\ pc = "start"
    /\ pc' = "connected"
    /\ steps' = Append(steps, <<"connect", "ok">>)
    /\ nodes_csv' = [state |-> "partial", cols |-> <<>>, rows |-> <<>>]
    /\ edges_csv' = [state |-> "partial", cols |-> <<>>, rows |-> <<>>]
    /\ UNCHANGED <<g_nodes, g_edges, nodes_result, nodes, edges_result, edges,
                   error, stdout, mutations>>

\* db = FalkorDB(host, port); g = db.select_graph(graph_name)
Connect ==
    /\ pc = "start"
    /\ pc' = "connected"
    /\ steps' = Append(steps, <<"connect", "ok">>)
    /\ UNCHANGED <<g_nodes, g_edges, nodes_result, nodes, edges_result, edges,
                   nodes_csv, edges_csv, error, stdout, mutations>>

ConnectFail ==
    /\ pc = "start"
    /\ Raise("connect", "ConnectionError")
    /\ UNCHANGED <<g_nodes, g_edges, nodes_result, nodes, edges_result, edges,
                   nodes_csv, edges_csv, stdout, mutations>>

\* mutant of QueryNodes: the query matches labelled nodes only
QueryNodes_LabelledOnly ==
    /\ pc = "connected"
    /\ nodes_result' = SelectSeq(g_nodes, LAMBDA r : r[2] # <<>>)
    /\ nodes' = FlattenNodes(nodes_result')
    /\ pc' = "nodes_ready"
    /\ steps' = Append(steps, <<"node_query", "ok">>)
    /\ UNCHANGED <<g_nodes, g_edges, edges_result, edges,
                   nodes_csv, edges_csv, error, stdout, mutations>>

\* nodes_result = g.ro_query(...) and the loop that fills `nodes`
QueryNodes ==
    /\ pc = "connected"
    /\ nodes_result' = g_nodes
    /\ nodes' = FlattenNodes(g_nodes)
    /\ pc' = "nodes_ready"
    /\ steps' = Append(steps, <<"node_query", "ok">>)
    /\ UNCHANGED <<g_nodes, g_edges, edges_result, edges,
                   nodes_csv, edges_csv, error, stdout, mutations>>

QueryNodesFail ==
    /\ pc = "connected"
    /\ Raise("node_query", "QueryError")
    /\ UNCHANGED <<g_nodes, g_edges, nodes_result, nodes, edges_result, edges,
                   nodes_csv, edges_csv, stdout, mutations>>

\* pd.DataFrame(nodes).to_csv("nodes.csv", index=False); print(...)
WriteNodes ==
    /\ pc = "nodes_ready"
    /\ nodes_csv' = WriteCsv(nodes_csv, nodes)
    /\ stdout' = Append(stdout, "Exported nodes to nodes.csv")
    /\ pc' = "nodes_written"
    /\ steps' = Append(steps, <<"node_write", "ok">>)
    /\ UNCHANGED <<g_nodes, g_edges, nodes_result, nodes, edges_result, edges,
                   edges_csv, error, mutations>>

WriteNodesFail ==
    /\ pc = "nodes_ready"
    /\ nodes_csv' \in FailedWrite(nodes_csv, to_csv(DataFrame(nodes)))
    /\ Raise("node_write", "IOError")
    /\ UNCHANGED <<g_nodes, g_edges, nodes_result, nodes, edges_result, edges,
                   edges_csv, stdout, mutations>>

\* edges_result = g.ro_query(...) and the loop that fills `edges`
QueryEdges ==
    /\ pc = "nodes_written"
    /\ edges_result' = g_edges
    /\ edges' = FlattenEdges(g_edges)
    /\ pc' = "edges_ready"
    /\ steps' = Append(steps, <<"edge_query", "ok">>)
    /\ UNCHANGED <<g_nodes, g_edges, nodes_result, nodes,
                   nodes_csv, edges_csv, error, stdout, mutations>>

\* mutant of QueryEdgesFail: the failure handler removes nodes.csv again
QueryEdgesFail_Rollback ==
    /\ pc = "nodes_written"
    /\ Raise("edge_query", "QueryError")
    /\ nodes_csv' = Absent
    /\ UNCHANGED <<g_nodes, g_edges, nodes_result, nodes, edges_result, edges,
                   edges_csv, stdout, mutations>>

QueryEdgesFail ==
    /\ pc = "nodes_written"
    /\ Raise("edge_query", "QueryError")
    /\ UNCHANGED <<g_nodes, g_edges, nodes_result, nodes, edges_result, edges,
                   nodes_csv, edges_csv, stdout, mutations>>

\* pd.DataFrame(edges).to_csv("edges.csv", index=False); print(...)
WriteEdges ==
    /\ pc = "edges_ready"
    /\ edges_csv' = WriteCsv(edges_csv, edges)
    /\ stdout' = Append(stdout, "Exported edges to edges.csv")
    /\ pc' = "done"
    /\ steps' = Append(steps, <<"edge_write", "ok">>)
    /\ UNCHANGED <<g_nodes, g_edges, nodes_result, nodes, edges_result, edges,
                   nodes_csv, error, mutations>>

WriteEdgesFail ==
    /\ pc = "edges_ready"
    /\ edges_csv' \in FailedWrite(edges_csv, to_csv(DataFrame(edges)))
    /\ Raise("edge_write", "IOError")
    /\ UNCHANGED <<g_nodes, g_edges, nodes_result, nodes, edges_result, edges,
                   nodes_csv, stdout, mutations>>

(***************************************************************************)
(* Specification: one run of export_graph against a graph other clients    *)
(* build and change.                                                       *)
(***************************************************************************)
Init ==
    /\ g_nodes = <<>>
    /\ g_edges = <<>>
    /\ pc = "start"
    /\ nodes_result = <<>>
    /\ nodes = <<>>
    /\ edges_result = <<>>
    /\ edges = <<>>
    /\ nodes_csv \in {Absent, Old}
    /\ edges_csv \in {Absent, Old}
    /\ error = "none"
    /\ stdout = <<>>
    /\ steps = <<>>
    /\ mutations = 0

Next ==
    \/ ClientCreateNode
    \/ ClientCreateEdge
    \/ ClientDeleteAll
    \/ Connect
    \/ ConnectFail
    \/ QueryNodes
    \/ QueryNodesFail
    \/ WriteNodes
    \/ WriteNodesFail
    \/ QueryEdges
    \/ QueryEdgesFail
    \/ WriteEdges
    \/ WriteEdgesFail

Spec == Init /\ [][Next]_vars

TypeOK ==
    /\ pc \in {"start", "connected", "nodes_ready", "nodes_written", "edges_ready",
               "done", "failed"}
    /\ error \in {"none", "ConnectionError", "QueryError", "IOError"}
    /\ nodes_csv.state \in {"absent", "old", "written", "partial"}
    /\ edges_csv.state \in {"absent", "old", "written", "partial"}
    /\ mutations \in 0..MaxMutations

(***************************************************************************)
(* SpecData: one run against a healthy server and disk, over result sets   *)
(* drawn from a wider set of labels and property mappings; no other client *)
(* touches the graph.                                                      *)
(***************************************************************************)
DataValues == {IntV(7), StrV(""), NoneV, StrV("NA")}

DataLabels == {<<>>, <<"Person", "Company">>}

DataNodeProps ==
    {None, Some(<<>>), Some(<< <<"name", StrV("Alice")>>, <<"age", IntV(7)>> >>)}
    \cup {Some(<< <<k, v>> >>) : k \in {"id", "label", "name"}, v \in DataValues}

DataEdgeProps ==
    {None, Some(<<>>)}
    \cup {Some(<< <<k, v>> >>) : k \in {"id", "type", "from_id", "to_id", "since"},
                                 v \in {IntV(7), StrV(""), NoneV}}

SeqsUpTo(S, n) == UNION {[1..k -> S] : k \in 0..n}

\* rows the node query returns for nodes 0..n-1 with the given labels and properties
NodeRows(f) == [i \in DOMAIN f |-> <<i - 1, f[i][1], f[i][2]>>]

\* rows the edge query returns for relationships 0..n-1, from node 0 to node i
EdgeRows(f) == [i \in DOMAIN f |-> <<i - 1, f[i][1], 0, i - 1, f[i][2]>>]

PlainNodes(n) == [i \in 1..n |-> <<i - 1, <<"Person">>, None>>]

InitData ==
    /\ \/ /\ \E f \in SeqsUpTo(DataLabels \X DataNodeProps, MaxRows) : g_nodes = NodeRows(f)
          /\ g_edges = <<>>
       \/ \E f \in SeqsUpTo({"KNOWS", "WORKS_FOR"} \X DataEdgeProps, MaxRows) :
             /\ f # <<>>
             /\ g_nodes = PlainNodes(Len(f))
             /\ g_edges = EdgeRows(f)
    /\ pc = "start"
    /\ nodes_result = <<>>
    /\ nodes = <<>>
    /\ edges_result = <<>>
    /\ edges = <<>>
    /\ nodes_csv = Absent
    /\ edges_csv = Absent
    /\ error = "none"
    /\ stdout = <<>>
    /\ steps = <<>>
    /\ mutations = 0

NextData ==
    \/ Connect
    \/ QueryNodes
    \/ WriteNodes
    \/ QueryEdges
    \/ WriteEdges

SpecData == InitData /\ [][NextData]_vars

(***************************************************************************)
(* Properties.                                                             *)
(***************************************************************************)
\* the property mapping of a returned row as a dict (None is no property at all)
PropMap(x) == IF x = <<>> THEN <<>> ELSE x[1]

ColSet(file) == {file.cols[i] : i \in DOMAIN file.cols}

\* the text in row r of the file under the column named k
Cell(file, r, k) == file.rows[r][CHOOSE c \in DOMAIN file.cols : file.cols[c] = k]

\* the value of a record under key k, missing when the record lacks the key
ValueOf(record, k) == IF HasKey(record, k) THEN Get(record, k) ELSE NaN

\* the text shows the value: a str as it is, an int in decimal (as int or float), null as nothing
Shows(text, v) ==
    CASE v.t = "str" -> text = v.s
      [] v.t = "int" -> text \in {IntText(v.n), FloatText(v.n)}
      [] OTHER -> text = ""

LastStep == steps[Len(steps)]

\* ---- C1 ---------------------------------------------------------------
\* C1: a file this run wrote completely holds exactly one row per row of the
\* result set it was made from (nodes.csv: the node query, edges.csv: the edge
\* query), and a run that ended successfully wrote both files.
C1_RowCounts ==
    /\ nodes_csv.state = "written" => Len(nodes_csv.rows) = Len(nodes_result)
    /\ edges_csv.state = "written" => Len(edges_csv.rows) = Len(edges_result)
    /\ pc = "done" => nodes_csv.state = "written" /\ edges_csv.state = "written"

\* a finished run over two nodes, one without labels and properties and one whose
\* property id collides with the fixed key, and one relationship
C1_Witness ==
    /\ pc = "done"
    /\ Len(nodes_result) = 2
    /\ Len(edges_result) = 1
    /\ \E i \in DOMAIN nodes_result : nodes_result[i][2] = <<>> /\ nodes_result[i][3] = <<>>
    /\ \E i \in DOMAIN nodes_result : HasKey(PropMap(nodes_result[i][3]), "id")
    /\ Len(nodes_csv.rows) = 2
    /\ Len(edges_csv.rows) = 1

\* ---- C2 ---------------------------------------------------------------
\* C2: until the node query has returned, and when the run failed in connect or
\* in the node query, neither file has been touched by the run; a failed run
\* carries an error.
C2_NoFileBeforeFirstFailure ==
    /\ (\/ pc \in {"start", "connected"}
        \/ pc = "failed" /\ LastStep[1] \in {"connect", "node_query"})
       => /\ nodes_csv.state \in {"absent", "old"}
          /\ edges_csv.state \in {"absent", "old"}
    /\ pc = "failed" => error # "none"

\* the connection failed while both files held earlier content
C2_Witness ==
    /\ pc = "failed"
    /\ steps = << <<"connect", "raised">> >>
    /\ error = "ConnectionError"
    /\ nodes_csv = Old
    /\ edges_csv = Old

\* ---- C3 ---------------------------------------------------------------
\* the frame read back has no data row (a file without columns raises
\* EmptyDataError, which the reader takes for an empty table)
ZeroRowTable(file) ==
    /\ file.state = "written"
    /\ file.rows = <<>>
    /\ read_csv(file).raised \in {"none", "EmptyDataError"}
    /\ read_csv(file).data = <<>>

\* C3: the export of no nodes and no relationships can always be written (the
\* write step is enabled on an empty list), and a run that ended over two empty
\* result sets ended without error, with both files existing as zero-row tables.
C3_EmptyGraph ==
    /\ (pc = "nodes_ready" /\ nodes = <<>>) => ENABLED WriteNodes
    /\ (pc = "edges_ready" /\ edges = <<>>) => ENABLED WriteEdges
    /\ (pc = "done" /\ nodes_result = <<>> /\ edges_result = <<>>)
       => /\ error = "none"
          /\ ZeroRowTable(nodes_csv)
          /\ ZeroRowTable(edges_csv)

\* a finished run over the empty graph
C3_Witness ==
    /\ pc = "done"
    /\ g_nodes = <<>>
    /\ g_edges = <<>>
    /\ nodes_result = <<>>
    /\ edges_result = <<>>
    /\ nodes_csv.state = "written"
    /\ edges_csv.state = "written"

\* ---- C4 ---------------------------------------------------------------
\* every key of the property mapping holds the property value in the record, every
\* fixed key the mapping lacks holds the server's value, and the written cells
\* show the record's values
Overlaid(record, fixed, props, file, r) ==
    /\ \A j \in DOMAIN props : ValueOf(record, props[j][1]) = props[j][2]
    /\ \A j \in DOMAIN fixed :
          ~HasKey(props, fixed[j][1]) => ValueOf(record, fixed[j][1]) = fixed[j][2]
    /\ Keys(record) = Keys(fixed) \cup Keys(props)
    /\ file.state = "written" =>
          \A k \in Keys(record) : Shows(Cell(file, r, k), Get(record, k))

\* C4: each record is its fixed keys overlaid with the property mapping, last
\* write wins, for nodes (id, label) and for edges (id, type, from_id, to_id).
C4_OverlayLastWriteWins ==
    /\ Len(nodes) = Len(nodes_result)
    /\ Len(edges) = Len(edges_result)
    /\ \A i \in DOMAIN nodes :
          LET row == nodes_result[i]
          IN  Overlaid(nodes[i],
                       << <<"id", IntV(row[1])>>,
                          <<"label", StrV(IF row[2] = <<>> THEN "" ELSE Head(row[2]))>> >>,
                       PropMap(row[3]), nodes_csv, i)
    /\ \A i \in DOMAIN edges :
          LET row == edges_result[i]
          IN  Overlaid(edges[i],
                       << <<"id", IntV(row[1])>>, <<"type", StrV(row[2])>>,
                          <<"from_id", IntV(row[3])>>, <<"to_id", IntV(row[4])>> >>,
                       PropMap(row[5]), edges_csv, i)

\* a written edge whose property from_id replaced the source identity, next to an
\* edge that kept the server's
C4_Witness ==
    /\ edges_csv.state = "written"
    /\ \E i \in DOMAIN edges :
          /\ HasKey(PropMap(edges_result[i][5]), "from_id")
          /\ Get(edges[i], "from_id") = StrV("")
          /\ Cell(edges_csv, i, "from_id") = ""
    /\ \E i \in DOMAIN edges :
          /\ ~HasKey(PropMap(edges_result[i][5]), "from_id")
          /\ Get(edges[i], "from_id") = IntV(0)

\* ---- C5 ---------------------------------------------------------------
\* C5: a node row whose properties do not hold the key label gets the first of
\* its labels, the empty string (a str, not None) when it has none, in the
\* record and in the written cell; every row of the result set gets a record
\* and a row of the file.
C5_FirstLabelOrEmpty ==
    /\ Len(nodes) = Len(nodes_result)
    /\ nodes_csv.state = "written" => Len(nodes_csv.rows) = Len(nodes_result)
    /\ \A i \in DOMAIN nodes :
          LET labels == nodes_result[i][2]
              expected == IF Len(labels) > 0 THEN Head(labels) ELSE ""
          IN  ~HasKey(PropMap(nodes_result[i][3]), "label") =>
                 /\ ValueOf(nodes[i], "label") = StrV(expected)
                 /\ nodes_csv.state = "written" => Cell(nodes_csv, i, "label") = expected

\* a written node without labels next to a written node with two labels
C5_Witness ==
    /\ nodes_csv.state = "written"
    /\ \E i \in DOMAIN nodes_result :
          /\ nodes_result[i][2] = <<>>
          /\ ~HasKey(PropMap(nodes_result[i][3]), "label")
          /\ Cell(nodes_csv, i, "label") = ""
    /\ \E i \in DOMAIN nodes_result :
          /\ Len(nodes_result[i][2]) = 2
          /\ ~HasKey(PropMap(nodes_result[i][3]), "label")
          /\ Cell(nodes_csv, i, "label") = "Person"

\* ---- C6 ---------------------------------------------------------------
\* the file's columns are the keys of the records, each once; every record has a
\* row with one cell per column, empty where the record lacks the key
TableOf(file, records) ==
    /\ ColSet(file) = UNION {Keys(records[i]) : i \in DOMAIN records}
    /\ Cardinality(ColSet(file)) = Len(file.cols)
    /\ Len(file.rows) = Len(records)
    /\ \A i \in DOMAIN records :
          /\ Len(file.rows[i]) = Len(file.cols)
          /\ \A c \in DOMAIN file.cols :
                ~HasKey(records[i], file.cols[c]) => file.rows[i][c] = ""

\* C6: the column set of each written file is the union of the keys of the
\* records written to it, and a record lacking a key has an empty cell there;
\* on a healthy disk every list of records, whatever its key sets, is written
\* and the run goes on without error.
C6_ColumnsAreUnionOfKeys ==
    /\ nodes_csv.state = "written" => TableOf(nodes_csv, nodes)
    /\ edges_csv.state = "written" => TableOf(edges_csv, edges)
    /\ pc \in {"nodes_written", "edges_ready", "done"} => nodes_csv.state = "written"
    /\ pc = "done" => edges_csv.state = "written"
    /\ error = "none"

\* two written node records, one lacking a key of the other
C6_Witness ==
    /\ nodes_csv.state = "written"
    /\ \E i, j \in DOMAIN nodes :
          /\ Keys(nodes[i]) # Keys(nodes[j])
          /\ \E k \in Keys(nodes[i]) \ Keys(nodes[j]) : Cell(nodes_csv, j, k) = ""

\* ---- C7 ---------------------------------------------------------------
\* a value up to the coercion between numbers and strings at the text boundary:
\* 7, 7.0 and "7" are one number; None, NaN and a missing key are all null
Canon(v) ==
    CASE v.t \in {"int", "float"} -> <<"num", v.n>>
      [] v.t = "str" -> IF IsIntText(v.s) \/ IsFloatText(v.s)
                        THEN <<"num", NumOf(v.s)>> ELSE <<"str", v.s>>
      [] OTHER -> <<"null">>

\* the frame read back has the records' columns and rows, each cell as SameCell says
ReadsBack(file, records, SameCell(_, _)) ==
    LET df == read_csv(file)
    IN  /\ df.raised = "none"
        /\ {df.columns[c] : c \in DOMAIN df.columns}
              = UNION {Keys(records[i]) : i \in DOMAIN records}
        /\ Len(df.columns) = Cardinality(UNION {Keys(records[i]) : i \in DOMAIN records})
        /\ Len(df.data) = Len(records)
        /\ \A i \in DOMAIN records : \A c \in DOMAIN df.columns :
              SameCell(ValueOf(records[i], df.columns[c]), df.data[i][c])

SameModuloCoercion(written, read) == Canon(written) = Canon(read)

\* a str the reader takes for a missing value (the empty string among them) reads
\* back as missing; every other value reads back the same modulo coercion
SameUnlessNaText(written, read) ==
    IF written.t = "str" /\ written.s \in NaTokens THEN read = NaN
    ELSE Canon(written) = Canon(read)

\* C7 as stated: every written non-empty collection reads back with the same
\* columns and the same values modulo string/number coercion.
C7_RoundTrip ==
    /\ (nodes_csv.state = "written" /\ nodes # <<>>)
          => ReadsBack(nodes_csv, nodes, SameModuloCoercion)
    /\ (edges_csv.state = "written" /\ edges # <<>>)
          => ReadsBack(edges_csv, edges, SameModuloCoercion)

\* C7 amended: every written non-empty collection reads back with the same
\* columns, and the same values modulo string/number coercion except that a
\* str value the reader takes for missing (the empty string, "NA", ...) reads
\* back as a missing value, like None and a missing key.
C7_RoundTripUpToNaText ==
    /\ (nodes_csv.state = "written" /\ nodes # <<>>)
          => ReadsBack(nodes_csv, nodes, SameUnlessNaText)
    /\ (edges_csv.state = "written" /\ edges # <<>>)
          => ReadsBack(edges_csv, edges, SameUnlessNaText)

\* written nodes: one without labels (label ""), one holding an int next to a
\* record that lacks the key, read back as missing and as the number
C7_Witness ==
    /\ nodes_csv.state = "written"
    /\ Len(nodes) = 2
    /\ \E i \in DOMAIN nodes :
          /\ Get(nodes[i], "label") = StrV("")
          /\ read_csv(nodes_csv).data[i][CHOOSE c \in DOMAIN nodes_csv.cols :
                                            nodes_csv.cols[c] = "label"] = NaN
    /\ \E i, j \in DOMAIN nodes :
          /\ ValueOf(nodes[i], "name") = IntV(7)
          /\ ~HasKey(nodes[j], "name")
          /\ Cell(nodes_csv, i, "name") = "7.0"
          /\ Cell(nodes_csv, j, "name") = ""

\* ---- C8 ---------------------------------------------------------------
StepOrder == <<"connect", "node_query", "node_write", "edge_query", "edge_write">>

ErrorOf(step) ==
    CASE step = "connect" -> "ConnectionError"
      [] step \in {"node_query", "edge_query"} -> "QueryError"
      [] OTHER -> "IOError"

\* C8: the steps attempted so far are an initial part of connect, node query,
\* node write, edge query, edge write, each once; a step that raised is the
\* last one attempted, the run has then failed and carries that step's error,
\* and a run that has not failed carries none.
C8_StepsOnceInOrder ==
    /\ Len(steps) <= Len(StepOrder)
    /\ \A i \in DOMAIN steps : steps[i][1] = StepOrder[i]
    /\ \A i \in DOMAIN steps : steps[i][2] = "raised" => i = Len(steps) /\ pc = "failed"
    /\ pc = "failed" => /\ steps # <<>>
                        /\ LastStep[2] = "raised"
                        /\ error = ErrorOf(LastStep[1])
    /\ pc # "failed" => error = "none"
    /\ pc = "done" <=> Len(steps) = Len(StepOrder) /\ LastStep[2] = "ok"

\* the node write raised after connect and the node query had succeeded
C8_Witness ==
    /\ pc = "failed"
    /\ steps = << <<"connect", "ok">>, <<"node_query", "ok">>, <<"node_write", "raised">> >>
    /\ error = "IOError"

\* ---- C9 ---------------------------------------------------------------
EdgeQueryIssued == \E i \in DOMAIN steps : steps[i][1] = "edge_query"

FailedInEdgeStep == pc = "failed" /\ LastStep[1] \in {"edge_query", "edge_write"}

\* nodes.csv holds the complete export of this run's node result set
NodesExported ==
    /\ nodes_csv.state = "written"
    /\ Len(nodes_csv.rows) = Len(nodes_result)
    /\ TableOf(nodes_csv, nodes)

\* C9 as stated: nodes.csv is complete before the edge query is issued, and a run
\* that failed in the edge query or the edge write leaves nodes.csv complete and
\* edges.csv absent or as it was before the run.
C9_NoRollback ==
    /\ EdgeQueryIssued => NodesExported
    /\ FailedInEdgeStep => /\ NodesExported
                           /\ edges_csv.state \in {"absent", "old"}

\* C9 amended: nodes.csv is complete before the edge query is issued, and a run
\* that failed in the edge query or the edge write leaves nodes.csv complete;
\* after a failed edge query edges.csv is absent or as before the run, after a
\* failed edge write it is absent, as before the run, or created/truncated by
\* this run and holding nothing or the header and a leading part of this run's
\* edge rows.
C9_NoRollbackPartialEdges ==
    /\ EdgeQueryIssued => NodesExported
    /\ FailedInEdgeStep =>
          /\ NodesExported
          /\ edges_csv.state \in {"absent", "old", "partial"}
          /\ LastStep[1] = "edge_query" => edges_csv.state \in {"absent", "old"}
          /\ edges_csv.state = "partial" =>
                /\ Len(edges_csv.rows) <= Len(edges)
                /\ \A r \in DOMAIN edges_csv.rows :
                      edges_csv.rows[r] = to_csv(DataFrame(edges)).rows[r]

\* the edge write failed after opening edges.csv, which earlier held other
\* content, while nodes.csv holds this run's two nodes
C9_Witness ==
    /\ pc = "failed"
    /\ LastStep = <<"edge_write", "raised">>
    /\ edges_csv.state = "partial"
    /\ nodes_csv.state = "written"
    /\ Len(nodes_csv.rows) = 2

\* ---- C10 --------------------------------------------------------------
\* no property of a returned row replaces an identity column
NoIdCollision ==
    /\ \A i \in DOMAIN nodes_result : ~HasKey(PropMap(nodes_result[i][3]), "id")
    /\ \A i \in DOMAIN edges_result :
          /\ ~HasKey(PropMap(edges_result[i][5]), "from_id")
          /\ ~HasKey(PropMap(edges_result[i][5]), "to_id")

NodeIdCells == {Cell(nodes_csv, r, "id") : r \in DOMAIN nodes_csv.rows}

\* rows of edges.csv whose from_id or to_id is the id of no row of nodes.csv
Dangling ==
    {r \in DOMAIN edges_csv.rows :
        \/ Cell(edges_csv, r, "from_id") \notin NodeIdCells
        \/ Cell(edges_csv, r, "to_id") \notin NodeIdCells}

\* C10: the edge query reads the graph as it is after the node query and the
\* node write; when no other client changed the graph during the run (and no
\* property collides with an identity column), every from_id and to_id of
\* edges.csv is the id of a row of nodes.csv.  (That a run with a mutation
\* between the queries can finish with a dangling from_id/to_id is C10_Witness.)
C10_EndpointsExportedWhenUnmutated ==
    /\ pc = "edges_ready" => EdgeQueryIssued /\ nodes_csv.state = "written"
    /\ (pc = "done" /\ mutations = 0 /\ NoIdCollision) => Dangling = {}

\* a run finished successfully although other clients created a node and a
\* relationship between the two queries: edges.csv names a node nodes.csv lacks
C10_Witness ==
    /\ pc = "done"
    /\ error = "none"
    /\ mutations > 0
    /\ NoIdCollision
    /\ Dangling # {}

====
